---- MODULE Spec2Model ----
(***************************************************************************)
(* Model of utils/dashboard-helper.ts: the rule table regexAndWarning,     *)
(* checkLine, getWarnings, createWarningComment and runHelper.             *)
(*                                                                         *)
(* Text that the regular expressions read is a sequence of one-character   *)
(* strings, so that every pattern is matched character by character.       *)
(* Text that is only copied (warning messages, filenames, the fixed parts  *)
(* of the comment) is a sequence of pieces; the newline is the piece NL.   *)
(***************************************************************************)
EXTENDS Integers, Sequences, FiniteSets, TLC

VARIABLES pc, line, doc, entries, ret,
          token, prUrl, dashboardsInPR, idx, warningMessages,
          fetchLog, createCalls, outputs, result

vars == <<pc, line, doc, entries, ret, token, prUrl, dashboardsInPR, idx,
          warningMessages, fetchLog, createCalls, outputs, result>>

(***************************************************************************)
(* Characters and the literal texts of the patterns.                       *)
(***************************************************************************)
Q == "\""
BSL == "\\"
NL == "\n"

nLinkedEntityGuids ==
  <<"l","i","n","k","e","d","E","n","t","i","t","y","G","u","i","d","s">>
nPermissions == <<"p","e","r","m","i","s","s","i","o","n","s">>
nAccountId == <<"a","c","c","o","u","n","t","I","d">>
nAccountIds == <<"a","c","c","o","u","n","t","I","d","s">>
nName == <<"n","a","m","e">>

sGuid == <<"g","u","i","d">>
sEntityGuid == <<"e","n","t","i","t","y","G","u","i","d">>
\* "<name>":<space>, the way a pattern spells a key and its separator.
KeyColon(n) == <<Q>> \o n \o <<Q, ":", " ">>
sLinkedEntityGuids == KeyColon(nLinkedEntityGuids)
sPermissions == KeyColon(nPermissions)
sAccountId == KeyColon(nAccountId)
sAccountIds == KeyColon(nAccountIds) \o <<Q, "[">>
sNull == <<"n","u","l","l">>
sZero == <<"0">>

\* The character class [`'"\) ] of the first pattern.
GuidFollow == {"`", "'", Q, ")", " "}
\* The characters of the alphabet that \s matches.
WhiteSpace == {" ", "\t", "\n", "\r"}
\* The characters that [^\]\[] rejects.
Brackets == {"[", "]"}

(***************************************************************************)
(* Matching primitives.                                                    *)
(***************************************************************************)
\* The literal p occurs in s starting at position i.
LitAt(s, i, p) ==
  /\ i >= 1
  /\ i + Len(p) - 1 <= Len(s)
  /\ \A k \in 1..Len(p) : s[i + k - 1] = p[k]

\* /guid[`'"\) ]/
TestGuid(s) ==
  \E i \in 1..Len(s) :
    /\ LitAt(s, i, sGuid)
    /\ i + Len(sGuid) <= Len(s)
    /\ s[i + Len(sGuid)] \in GuidFollow

\* /entityGuid/
TestEntityGuid(s) == \E i \in 1..Len(s) : LitAt(s, i, sEntityGuid)

\* The third pattern without its lookahead.
TestLinkedEntityGuidsAnyValue(s) ==
  \E i \in 1..Len(s) : LitAt(s, i, sLinkedEntityGuids)

\* /\"linkedEntityGuids\": (?:(?!null))/
TestLinkedEntityGuids(s) ==
  \E i \in 1..Len(s) :
    /\ LitAt(s, i, sLinkedEntityGuids)
    /\ ~LitAt(s, i + Len(sLinkedEntityGuids), sNull)

\* /\"permissions\": /
TestPermissions(s) == \E i \in 1..Len(s) : LitAt(s, i, sPermissions)

\* /\"accountId\": (?:(?!0))/
TestAccountId(s) ==
  \E i \in 1..Len(s) :
    /\ LitAt(s, i, sAccountId)
    /\ ~LitAt(s, i + Len(sAccountId), sZero)

\* (?!\s*]) at position j: no run of white space from j ends in "]".
BlankThenClose(s, j) ==
  \E k \in j..Len(s) :
    /\ s[k] = "]"
    /\ \A m \in j..(k - 1) : s[m] \in WhiteSpace

\* ([^\]\[]+)\]\" at position j: one or more non-bracket characters, then ]".
ContentThenClose(s, j) ==
  \E k \in (j + 1)..(Len(s) - 1) :
    /\ \A m \in j..(k - 1) : s[m] \notin Brackets
    /\ s[k] = "]"
    /\ s[k + 1] = Q

\* /\"accountIds\": \"\[(?!\s*])([^\]\[]+)\]\"/
TestAccountIds(s) ==
  \E i \in 1..Len(s) :
    /\ LitAt(s, i, sAccountIds)
    /\ ~BlankThenClose(s, i + Len(sAccountIds))
    /\ ContentThenClose(s, i + Len(sAccountIds))

(***************************************************************************)
(* The rule table: regexAndWarning[i] = [regex i, warning i].              *)
(***************************************************************************)
NumRules == 6

WarnGuid == "\"guid\" should not be used"
WarnEntityGuid == "\"entityGuid\" should not be used"
WarnPermissions == "\"permissions\" field should not be used"
WarnAccountId == "\"accountId\" must be zero"
WarnAccountIds == "\"accountIds\" must be set to []"

regexTest(i, s) ==
  CASE i = 1 -> TestGuid(s)
    [] i = 2 -> TestEntityGuid(s)
    [] i = 3 -> TestLinkedEntityGuids(s)
    [] i = 4 -> TestPermissions(s)
    [] i = 5 -> TestAccountId(s)
    [] i = 6 -> TestAccountIds(s)

warningOf(i) ==
  CASE i = 1 -> WarnGuid
    [] i = 2 -> WarnEntityGuid
    [] i = 3 -> WarnEntityGuid
    [] i = 4 -> WarnPermissions
    [] i = 5 -> WarnAccountId
    [] i = 6 -> WarnAccountIds

(***************************************************************************)
(* checkLine: the for loop over the rule table, pushing on each match.     *)
(***************************************************************************)
RECURSIVE checkLineFirstOnly(_, _, _)
checkLineFirstOnly(s, i, warningsFound) ==
  IF i > NumRules THEN warningsFound
  ELSE IF regexTest(i, s) THEN Append(warningsFound, warningOf(i))
  ELSE checkLineFirstOnly(s, i + 1, warningsFound)

RECURSIVE checkLineLoop(_, _, _)
checkLineLoop(s, i, warningsFound) ==
  IF i > NumRules THEN warningsFound
  ELSE checkLineLoop(s, i + 1,
         IF regexTest(i, s) THEN Append(warningsFound, warningOf(i))
         ELSE warningsFound)

checkLine(s) == checkLineLoop(s, 1, <<>>)

(***************************************************************************)
(* JSON values: [t |-> tag, v |-> payload].  A number carries the text     *)
(* JSON.stringify prints for it; a string carries its characters; an array *)
(* its elements; an object its members [k |-> key characters, val |-> _]   *)
(* in the document's own key order.                                        *)
(***************************************************************************)
JNull == [t |-> "null", v |-> <<>>]
JNum(digits) == [t |-> "num", v |-> digits]
JStr(chars) == [t |-> "str", v |-> chars]
JArr(items) == [t |-> "arr", v |-> items]
JObj(members) == [t |-> "obj", v |-> members]
Member(k, val) == [k |-> k, val |-> val]

\* QuoteJSONString: the escapes JSON.stringify applies inside a string.
EscapeChar(c) ==
  CASE c = Q -> <<BSL, Q>>
    [] c = BSL -> <<BSL, BSL>>
    [] c = "\n" -> <<BSL, "n">>
    [] c = "\t" -> <<BSL, "t">>
    [] c = "\r" -> <<BSL, "r">>
    [] OTHER -> <<c>>

RECURSIVE EscapeAll(_)
EscapeAll(s) ==
  IF s = <<>> THEN <<>> ELSE EscapeChar(Head(s)) \o EscapeAll(Tail(s))

QuoteJSONString(s) == <<Q>> \o EscapeAll(s) \o <<Q>>

\* JSON.stringify(v) with no replacer and no indent: the inner call of the
\* replacer, which prints an array on one line.
RECURSIVE CompactStringify(_)
RECURSIVE CompactItems(_, _)
RECURSIVE CompactMembers(_, _)
CompactItems(items, i) ==
  IF i > Len(items) THEN <<>>
  ELSE (IF i > 1 THEN <<",">> ELSE <<>>)
       \o CompactStringify(items[i]) \o CompactItems(items, i + 1)

CompactMembers(members, i) ==
  IF i > Len(members) THEN <<>>
  ELSE (IF i > 1 THEN <<",">> ELSE <<>>)
       \o QuoteJSONString(members[i].k) \o <<":">>
       \o CompactStringify(members[i].val) \o CompactMembers(members, i + 1)

CompactStringify(j) ==
  CASE j.t = "null" -> sNull
    [] j.t = "num" -> j.v
    [] j.t = "str" -> QuoteJSONString(j.v)
    [] j.t = "arr" -> <<"[">> \o CompactItems(j.v, 1) \o <<"]">>
    [] j.t = "obj" -> <<"{">> \o CompactMembers(j.v, 1) \o <<"}">>

\* The replacer (k, v) => Array.isArray(v) ? JSON.stringify(v) : v
ReplacerKeepArrays(j) == j

Replacer(j) == IF j.t = "arr" THEN JStr(CompactStringify(j)) ELSE j

Gap == <<" ", " ">>

\* JSON.stringify(j, replacer, 2): the text of j at the indentation ind.
RECURSIVE Stringify(_, _)
RECURSIVE StringifyMembers(_, _, _)
RECURSIVE StringifyItems(_, _, _)
StringifyMembers(members, i, ind) ==
  IF i > Len(members) THEN <<>>
  ELSE (IF i > 1 THEN <<",", NL>> ELSE <<>>)
       \o ind \o QuoteJSONString(members[i].k) \o <<":", " ">>
       \o Stringify(members[i].val, ind)
       \o StringifyMembers(members, i + 1, ind)

StringifyItems(items, i, ind) ==
  IF i > Len(items) THEN <<>>
  ELSE (IF i > 1 THEN <<",", NL>> ELSE <<>>)
       \o ind \o Stringify(items[i], ind)
       \o StringifyItems(items, i + 1, ind)

Stringify(j, ind) ==
  LET r == Replacer(j) IN
  CASE r.t = "null" -> sNull
    [] r.t = "num" -> r.v
    [] r.t = "str" -> QuoteJSONString(r.v)
    [] r.t = "obj" ->
         IF r.v = <<>> THEN <<"{", "}">>
         ELSE <<"{", NL>> \o StringifyMembers(r.v, 1, ind \o Gap)
              \o <<NL>> \o ind \o <<"}">>
    [] r.t = "arr" ->
         IF r.v = <<>> THEN <<"[", "]">>
         ELSE <<"[", NL>> \o StringifyItems(r.v, 1, ind \o Gap)
              \o <<NL>> \o ind \o <<"]">>

\* text.split('\n')
RECURSIVE SplitLines(_, _)
SplitLines(text, cur) ==
  IF text = <<>> THEN <<cur>>
  ELSE IF Head(text) = NL THEN <<cur>> \o SplitLines(Tail(text), <<>>)
  ELSE SplitLines(Tail(text), Append(cur, Head(text)))

dashLines(j) == SplitLines(Stringify(j, <<>>), <<>>)

(***************************************************************************)
(* getWarnings: forEach over the rendered lines, pushing each warning of   *)
(* checkLine(line) when there is one.                                      *)
(***************************************************************************)
RECURSIVE getWarningsFirstPerLine(_, _, _)
getWarningsFirstPerLine(lines, i, warnings) ==
  IF i > Len(lines) THEN warnings
  ELSE LET output == checkLine(lines[i]) IN
       getWarningsFirstPerLine(lines, i + 1,
         IF Len(output) > 0 THEN Append(warnings, output[1]) ELSE warnings)

RECURSIVE getWarningsLoop(_, _, _)
getWarningsLoop(lines, i, warnings) ==
  IF i > Len(lines) THEN warnings
  ELSE LET output == checkLine(lines[i]) IN
       getWarningsLoop(lines, i + 1,
         IF Len(output) > 0 THEN warnings \o output ELSE warnings)

getWarnings(j) == getWarningsLoop(dashLines(j), 1, <<>>)

(***************************************************************************)
(* Inputs.                                                                 *)
(***************************************************************************)
MaxFrags == 2
MaxItems == 1

\* Pieces of text a line is put together from: fields (a key followed by a
\* value, or by nothing) and loose tokens.
LineKeys == {KeyColon(nLinkedEntityGuids), KeyColon(nPermissions),
             KeyColon(nAccountId), KeyColon(nAccountIds)}
LineValues ==
  { <<>>, <<"0">>, <<"5">>, <<"0", ".", "5">>, sNull,
    <<Q, "[", "]", Q>>, <<Q, "[", "5", "]", Q>>,
    <<Q, "[", "[", "5", "]", "]", Q>>, <<Q, "[", " ", "]", Q>>,
    <<Q, "x", Q>> }
LineTokens == {sGuid, sEntityGuid, <<Q>>, <<" ">>}
Frags == {k \o v : k \in LineKeys, v \in LineValues} \cup LineTokens

RECURSIVE Concats(_)
Concats(n) ==
  IF n = 0 THEN {<<>>}
  ELSE LET prev == Concats(n - 1) IN
       prev \cup {p \o f : p \in prev, f \in Frags}

Lines == Concats(MaxFrags)

\* Documents.
DocKeys == {nLinkedEntityGuids, nPermissions, nAccountId, nAccountIds, nName}
Leaves == {JNull, JNum(<<"0">>), JNum(<<"5">>), JStr(sEntityGuid)}
InnerObjs ==
  {JObj(<<>>)} \cup {JObj(<<Member(k, v)>>) : k \in DocKeys, v \in Leaves}
ArrItems ==
  { JNum(<<"0">>), JNum(<<"5">>), JStr(sEntityGuid), JArr(<<JNum(<<"5">>)>>),
    JObj(<<Member(nAccountId, JNum(<<"5">>))>>),
    JObj(<<Member(nPermissions, JNull)>>),
    JObj(<<Member(nLinkedEntityGuids, JNum(<<"5">>))>>),
    JObj(<<Member(nAccountIds, JArr(<<JNum(<<"5">>)>>))>>) }

RECURSIVE SeqsUpTo(_, _)
SeqsUpTo(S, n) ==
  IF n = 0 THEN {<<>>}
  ELSE LET prev == SeqsUpTo(S, n - 1) IN
       prev \cup {Append(p, x) : p \in prev, x \in S}

Arrays == {JArr(items) : items \in SeqsUpTo(ArrItems, MaxItems)}
FieldVals == Leaves \cup Arrays \cup InnerObjs
SecondVals == Leaves \cup {JArr(<<>>), JArr(<<JNum(<<"5">>)>>)}
Docs1 == {JObj(<<Member(k, v)>>) : k \in DocKeys, v \in FieldVals}
Docs2 ==
  { JObj(<<m, Member(k, v)>>) :
      m \in {Member(k1, v1) : k1 \in DocKeys, v1 \in FieldVals},
      k \in DocKeys, v \in SecondVals }
Docs == Leaves \cup Arrays \cup Docs1 \cup {d \in Docs2 : d.v[1].k # d.v[2].k}

(***************************************************************************)
(* checkLine and getWarnings applied to an input.                          *)
(***************************************************************************)
Idle ==
  /\ token = FALSE /\ prUrl = FALSE /\ dashboardsInPR = <<>> /\ idx = 0
  /\ warningMessages = <<>> /\ fetchLog = <<>> /\ createCalls = <<>>
  /\ outputs = <<>> /\ result = "none"

runVars == <<token, prUrl, dashboardsInPR, idx, warningMessages, fetchLog,
             createCalls, outputs, result>>

InitCheckLine ==
  /\ pc = "call" /\ line \in Lines /\ doc = JNull /\ entries = <<>>
  /\ ret = <<>> /\ Idle

CallCheckLine ==
  /\ pc = "call"
  /\ ret' = checkLine(line)
  /\ pc' = "ret"
  /\ UNCHANGED <<line, doc, entries, runVars>>

SpecCheckLine == InitCheckLine /\ [][CallCheckLine]_vars

InitGetWarnings ==
  /\ pc = "call" /\ line = <<>> /\ doc \in Docs /\ entries = <<>>
  /\ ret = <<>> /\ Idle

CallGetWarnings ==
  /\ pc = "call"
  /\ ret' = getWarnings(doc)
  /\ pc' = "ret"
  /\ UNCHANGED <<line, doc, entries, runVars>>

SpecGetWarnings == InitGetWarnings /\ [][CallGetWarnings]_vars

(***************************************************************************)
(* Properties of checkLine (SpecCheckLine).                                *)
(***************************************************************************)
InSeq(x, sq) == \E k \in 1..Len(sq) : sq[k] = x

Contains(s, p) == \E i \in 1..Len(s) : LitAt(s, i, p)

\* The rules whose pattern matches s, and the k-th of them in table order.
Matching(s) == {i \in 1..NumRules : regexTest(i, s)}
KthOf(M, k) == CHOOSE i \in M : Cardinality({j \in M : j < i}) = k - 1

\* C2: checkLine returns one message per matching rule, in rule-table
\* order wherever in the line the matches are, and nothing else; with no
\* matching rule it returns the empty sequence.
C2_OneMessagePerMatchingRule ==
  pc = "ret" =>
    LET M == Matching(line) IN
    /\ Len(ret) = Cardinality(M)
    /\ \A k \in 1..Len(ret) : ret[k] = warningOf(KthOf(M, k))

\* A line whose accountId match comes before its permissions match, the
\* reverse of the table's order.
C2_Witness ==
  /\ pc = "ret"
  /\ LitAt(line, 1, sAccountId)
  /\ Contains(line, sPermissions)
  /\ ret = <<WarnPermissions, WarnAccountId>>

\* The number text that starts at position j of s.
NumChars == {"0", "1", "2", "3", "4", "5", "6", "7", "8", "9", ".", "-"}
RECURSIVE NumRun(_, _)
NumRun(s, j) ==
  IF j > Len(s) \/ s[j] \notin NumChars THEN <<>>
  ELSE <<s[j]>> \o NumRun(s, j + 1)

\* C3 (as claimed): a line with "accountId": 0 gets no accountId warning,
\* and a line with "accountId": followed by any other number gets it.
C3_ZeroOnlyPasses ==
  pc = "ret" =>
    /\ (\E i \in 1..Len(line) :
          /\ LitAt(line, i, sAccountId)
          /\ NumRun(line, i + Len(sAccountId)) = sZero)
       => ~InSeq(WarnAccountId, ret)
    /\ (\E i \in 1..Len(line) :
          /\ LitAt(line, i, sAccountId)
          /\ NumRun(line, i + Len(sAccountId)) \notin {<<>>, sZero})
       => InSeq(WarnAccountId, ret)

\* C5 (as claimed): a line containing "linkedEntityGuids": null does not get
\* the message of the linkedEntityGuids rule, and a line where anything else
\* follows "linkedEntityGuids": gets it.
C5_NullOnlyPasses ==
  pc = "ret" =>
    /\ Contains(line, sLinkedEntityGuids \o sNull)
       => ~InSeq(WarnEntityGuid, ret)
    /\ (\E i \in 1..Len(line) :
          /\ LitAt(line, i, sLinkedEntityGuids)
          /\ ~LitAt(line, i + Len(sLinkedEntityGuids), sNull))
       => InSeq(WarnEntityGuid, ret)

\* C5 (amended): when every "linkedEntityGuids": of the line is followed by
\* null and the line does not contain entityGuid, the message is absent;
\* when some "linkedEntityGuids": is followed by anything else, it is there.
C5_NullOnlyPassesAmended ==
  pc = "ret" =>
    /\ ( /\ Contains(line, sLinkedEntityGuids \o sNull)
         /\ \A i \in 1..Len(line) :
              LitAt(line, i, sLinkedEntityGuids)
                => LitAt(line, i + Len(sLinkedEntityGuids), sNull)
         /\ ~Contains(line, sEntityGuid) )
       => ~InSeq(WarnEntityGuid, ret)
    /\ (\E i \in 1..Len(line) :
          /\ LitAt(line, i, sLinkedEntityGuids)
          /\ ~LitAt(line, i + Len(sLinkedEntityGuids), sNull))
       => InSeq(WarnEntityGuid, ret)

\* A null field next to another field of the line, with no message.
C5_Witness ==
  /\ pc = "ret"
  /\ Contains(line, sLinkedEntityGuids \o sNull)
  /\ Contains(line, sAccountId)
  /\ ~InSeq(WarnEntityGuid, ret)
  /\ ret # <<>>

(***************************************************************************)
(* Properties of getWarnings (SpecGetWarnings).                            *)
(***************************************************************************)
RECURSIVE MatchesBefore(_, _)
MatchesBefore(lines, i) ==
  IF i <= 1 THEN 0
  ELSE MatchesBefore(lines, i - 1) + Cardinality(Matching(lines[i - 1]))

\* C1: getWarnings(d) is the concatenation of checkLine over the rendered
\* lines in order: its length is the number of (line, rule) matches, it is
\* empty exactly when no line matches a rule, and the warnings of line i
\* sit right after those of the lines before it.
C1_ConcatenationOverLines ==
  pc = "ret" =>
    LET L == dashLines(doc) IN
    /\ Len(ret) = MatchesBefore(L, Len(L) + 1)
    /\ (ret = <<>>) <=> (\A i \in 1..Len(L) : Matching(L[i]) = {})
    /\ \A i \in 1..Len(L) :
         SubSeq(ret, MatchesBefore(L, i) + 1, MatchesBefore(L, i + 1))
           = checkLine(L[i])

\* Two matching lines, the earlier one with two matches.
C1_Witness ==
  /\ pc = "ret"
  /\ LET L == dashLines(doc) IN
     \E i, j \in 1..Len(L) :
       /\ i < j
       /\ Cardinality(Matching(L[i])) = 2
       /\ Matching(L[j]) # {}
       /\ checkLine(L[i]) # checkLine(L[j])
  /\ Len(ret) = 3

\* The line is an accountIds field whose value is the text val (a comma
\* may follow).
FieldLine(l, n, val) ==
  \E i \in 1..Len(l) :
    /\ \A m \in 1..(i - 1) : l[m] = " "
    /\ LitAt(l, i, KeyColon(n) \o val)
    /\ \/ Len(l) = i + Len(KeyColon(n) \o val) - 1
       \/ /\ Len(l) = i + Len(KeyColon(n) \o val)
          /\ l[Len(l)] = ","

\* The line is an accountIds field whose value is "[c]" for a non-empty c.
BracketedLine(l) ==
  \E i \in 1..Len(l) :
    /\ \A m \in 1..(i - 1) : l[m] = " "
    /\ LitAt(l, i, sAccountIds)
    /\ LET e == IF l[Len(l)] = "," THEN Len(l) - 1 ELSE Len(l) IN
       /\ e - 2 >= i + Len(sAccountIds)
       /\ l[e] = Q
       /\ l[e - 1] = "]"

\* C4 (as claimed): a rendered line whose accountIds field is "[]" gets no
\* warning; one whose accountIds field is a quoted bracketed string with
\* anything between the brackets gets the accountIds warning.
C4_EmptyOnlyPasses ==
  pc = "ret" =>
    LET L == dashLines(doc) IN
    \A i \in 1..Len(L) :
      /\ FieldLine(L[i], nAccountIds, <<Q, "[", "]", Q>>)
           => checkLine(L[i]) = <<>>
      /\ BracketedLine(L[i])
           => InSeq(WarnAccountIds, checkLine(L[i])) /\ InSeq(WarnAccountIds, ret)

\* The members reachable from j through objects only that rule r is about
\* and whose value the rule is meant to reject.
RuleKey(r) ==
  CASE r = 3 -> nLinkedEntityGuids
    [] r = 4 -> nPermissions
    [] r = 5 -> nAccountId
    [] r = 6 -> nAccountIds

Offends(r, val) ==
  CASE r = 3 -> val.t # "null"
    [] r = 4 -> TRUE
    [] r = 5 -> val # JNum(sZero)
    [] r = 6 -> val.t = "arr" /\ val.v # <<>>

RECURSIVE OffendersOutsideArrays(_, _)
RECURSIVE OffendersAmong(_, _, _)
OffendersAmong(members, i, r) ==
  IF i > Len(members) THEN 0
  ELSE (IF members[i].k = RuleKey(r) /\ Offends(r, members[i].val)
        THEN 1 ELSE 0)
       + OffendersOutsideArrays(members[i].val, r)
       + OffendersAmong(members, i + 1, r)

OffendersOutsideArrays(j, r) ==
  IF j.t = "obj" THEN OffendersAmong(j.v, 1, r) ELSE 0

RECURSIVE KeyedInsideArrays(_, _)
RECURSIVE KeyedAmong(_, _, _)
KeyedAmong(xs, i, inArr) ==
  IF i > Len(xs) THEN FALSE
  ELSE \/ KeyedInsideArrays(xs[i], inArr)
       \/ KeyedAmong(xs, i + 1, inArr)

\* j holds, inside an array, a field that one of the rules 3 to 6 is meant
\* to reject.
KeyedInsideArrays(j, inArr) ==
  CASE j.t = "arr" -> KeyedAmong(j.v, 1, TRUE)
    [] j.t = "obj" ->
         \E m \in 1..Len(j.v) :
           \/ inArr /\ \E r \in 3..6 : j.v[m].k = RuleKey(r) /\ Offends(r, j.v[m].val)
           \/ KeyedInsideArrays(j.v[m].val, inArr)
    [] OTHER -> FALSE

\* C10: fields inside arrays never trigger rules 3 to 6: for each of these
\* rules, no more lines match it than there are offending fields of its key
\* reachable from the root without passing through an array.
C10_ArraysHideFields ==
  pc = "ret" =>
    LET L == dashLines(doc) IN
    \A r \in 3..6 :
      Cardinality({i \in 1..Len(L) : regexTest(r, L[i])})
        <= OffendersOutsideArrays(doc, r)

\* A document whose only offending fields are inside arrays: no line of it
\* matches one of the rules 3 to 6.
C10_Witness ==
  /\ pc = "ret"
  /\ KeyedInsideArrays(doc, FALSE)
  /\ \A r \in 3..6 : OffendersOutsideArrays(doc, r) = 0
  /\ LET L == dashLines(doc) IN
     \A i \in 1..Len(L) : \A r \in 3..6 : ~regexTest(r, L[i])

(***************************************************************************)
(* createWarningComment.  A text is a sequence of pieces.                  *)
(***************************************************************************)
encodedNewline == NL

Heading ==
  <<"### The PR checks have run and found the following warnings:",
    encodedNewline>>
tableHeader == <<"| Warning | Filepath | ", encodedNewline, "| --- | --- | ">>
linkToDocs ==
  <<encodedNewline,
    "Reference the [Contributing Docs for Dashboards](https://github.com/newrelic/newrelic-quickstarts/blob/main/CONTRIBUTING.md#dashboards) for more information. ",
    encodedNewline>>

\* Array.prototype.join
RECURSIVE JoinNoSeparator(_, _)
JoinNoSeparator(parts, sep) ==
  IF parts = <<>> THEN <<>>
  ELSE Head(parts) \o JoinNoSeparator(Tail(parts), sep)

RECURSIVE Join(_, _)
Join(parts, sep) ==
  IF parts = <<>> THEN <<>>
  ELSE IF Len(parts) = 1 THEN parts[1]
  ELSE parts[1] \o <<sep>> \o Join(Tail(parts), sep)

createWarningComment(warnings) ==
  LET commentMessage == (<<Heading, tableHeader>> \o warnings) \o <<linkToDocs>>
  IN Join(commentMessage, encodedNewline)

(***************************************************************************)
(* runHelper.                                                              *)
(***************************************************************************)
MaxEntries == 3
MaxFiles == 3

sDashboards == <<"d","a","s","h","b","o","a","r","d","s","/">>
sJson == <<".","j","s","o","n">>

\* /^dashboards\/\S*\.json$/
dashboardFileRegEx(f) ==
  /\ LitAt(f, 1, sDashboards)
  /\ Len(f) >= Len(sDashboards) + Len(sJson)
  /\ LitAt(f, Len(f) - Len(sJson) + 1, sJson)
  /\ \A m \in (Len(sDashboards) + 1)..(Len(f) - Len(sJson)) :
       f[m] \notin WhiteSpace

FileNames ==
  { sDashboards \o <<"a">> \o sJson,
    sDashboards \o <<"b">> \o sJson,
    sDashboards \o <<"a", " ", "b">> \o sJson,
    <<"d","o","c","s","/","a">> \o sJson }

\* A changed file as the listing returns it.
File(f) == [filename |-> f, raw_url |-> <<"r","a","w","/">> \o f]
FileLists == SeqsUpTo({File(f) : f \in FileNames}, MaxFiles)

\* What a download can bring back.
RunDocs ==
  { JObj(<<Member(nName, JNum(sZero))>>),
    JObj(<<Member(nAccountId, JNum(<<"5">>)), Member(nPermissions, JNull)>>),
    JObj(<<Member(nLinkedEntityGuids, JNum(<<"5">>))>>) }

\* `| ${o} | ${dash.filename} |`
Entry(o, filename) == (<<"| ", o, " | ">> \o filename) \o <<" |">>

\* warnings.forEach((o) => warningMessages.push(...))
RECURSIVE PushEntriesInFront(_, _, _)
PushEntriesInFront(messages, warnings, filename) ==
  IF warnings = <<>> THEN messages
  ELSE PushEntriesInFront(<<Entry(Head(warnings), filename)>> \o messages,
                          Tail(warnings), filename)

RECURSIVE PushEntries(_, _, _)
PushEntries(messages, warnings, filename) ==
  IF warnings = <<>> THEN messages
  ELSE PushEntries(Append(messages, Entry(Head(warnings), filename)),
                   Tail(warnings), filename)

pureVars == <<line, doc, entries, ret>>

Init ==
  /\ pc = "start"
  /\ token \in BOOLEAN /\ prUrl \in BOOLEAN
  /\ line = <<>> /\ doc = JNull /\ entries = <<>> /\ ret = <<>>
  /\ dashboardsInPR = <<>> /\ idx = 0 /\ warningMessages = <<>>
  /\ fetchLog = <<>> /\ createCalls = <<>> /\ outputs = <<>>
  /\ result = "none"

\* The two guards on the arguments.
CheckArgs ==
  /\ pc = "start"
  /\ IF ~token \/ ~prUrl
       THEN result' = "false" /\ pc' = "done"
       ELSE result' = result /\ pc' = "list"
  /\ UNCHANGED <<pureVars, token, prUrl, dashboardsInPR, idx,
                 warningMessages, fetchLog, createCalls, outputs>>

\* The listing of the changed files and the filter on their names.
ListFiles ==
  /\ pc = "list"
  /\ \E files \in FileLists :
       dashboardsInPR' =
         SelectSeq(files, LAMBDA f : dashboardFileRegEx(f.filename))
  /\ idx' = 1
  /\ pc' = "loop"
  /\ UNCHANGED <<pureVars, token, prUrl, warningMessages, fetchLog,
                 createCalls, outputs, result>>

\* The listing throws: runHelper's promise rejects, nothing is returned.
ListFilesThrows ==
  /\ pc = "list"
  /\ pc' = "rejected"
  /\ UNCHANGED <<pureVars, runVars>>

\* The catch block, with the iteration that failed skipped instead.
OnFetchErrorSkip(outcome) ==
  /\ fetchLog' = Append(fetchLog,
       [file |-> dashboardsInPR[idx], outcome |-> outcome,
        doc |-> JNull, warnings |-> <<>>])
  /\ idx' = idx + 1
  /\ UNCHANGED <<pc, result>>

\* The catch block: log and return false.
OnFetchError(outcome) ==
  /\ fetchLog' = Append(fetchLog,
       [file |-> dashboardsInPR[idx], outcome |-> outcome,
        doc |-> JNull, warnings |-> <<>>])
  /\ result' = "false"
  /\ pc' = "done"
  /\ idx' = idx

\* One iteration: the download succeeds and the document is scanned.
FetchOk ==
  /\ pc = "loop"
  /\ idx <= Len(dashboardsInPR)
  /\ \E responseJSON \in RunDocs :
       LET warnings == getWarnings(responseJSON) IN
       /\ warningMessages' =
            PushEntries(warningMessages, warnings, dashboardsInPR[idx].filename)
       /\ fetchLog' = Append(fetchLog,
            [file |-> dashboardsInPR[idx], outcome |-> "ok",
             doc |-> responseJSON, warnings |-> warnings])
  /\ idx' = idx + 1
  /\ UNCHANGED <<pureVars, pc, token, prUrl, dashboardsInPR, createCalls,
                 outputs, result>>

\* One iteration: the response is not ok, which throws into the catch block.
FetchNotOk ==
  /\ pc = "loop"
  /\ idx <= Len(dashboardsInPR)
  /\ OnFetchError("notok")
  /\ UNCHANGED <<pureVars, token, prUrl, dashboardsInPR, warningMessages,
                 createCalls, outputs>>

\* One iteration: fetch or response.json() rejects.
FetchThrows ==
  /\ pc = "loop"
  /\ idx <= Len(dashboardsInPR)
  /\ OnFetchError("threw")
  /\ UNCHANGED <<pureVars, token, prUrl, dashboardsInPR, warningMessages,
                 createCalls, outputs>>

\* After the loop, with the guard on the number of entries dropped.
FinishAlways ==
  /\ pc = "loop"
  /\ idx > Len(dashboardsInPR)
  /\ createCalls' = Append(createCalls, warningMessages)
  /\ outputs' = Append(outputs, createWarningComment(warningMessages))
  /\ result' = "true"
  /\ pc' = "done"
  /\ UNCHANGED <<pureVars, token, prUrl, dashboardsInPR, idx,
                 warningMessages, fetchLog>>

\* After the loop: the comment, when there are entries, and return true.
Finish ==
  /\ pc = "loop"
  /\ idx > Len(dashboardsInPR)
  /\ IF Len(warningMessages) > 0
       THEN /\ createCalls' = Append(createCalls, warningMessages)
            /\ outputs' = Append(outputs, createWarningComment(warningMessages))
       ELSE UNCHANGED <<createCalls, outputs>>
  /\ result' = "true"
  /\ pc' = "done"
  /\ UNCHANGED <<pureVars, token, prUrl, dashboardsInPR, idx,
                 warningMessages, fetchLog>>

Next ==
  \/ CheckArgs
  \/ ListFiles
  \/ ListFilesThrows
  \/ FetchOk
  \/ FetchNotOk
  \/ FetchThrows
  \/ Finish

Spec == Init /\ [][Next]_vars

(***************************************************************************)
(* createWarningComment applied to an input.                               *)
(***************************************************************************)
EntryTexts ==
  { Entry(w, f) : w \in {WarnGuid, WarnAccountId},
                  f \in {sDashboards \o <<"a">> \o sJson,
                         sDashboards \o <<"b">> \o sJson} }
  \cup { <<"| X | f.json |">>, <<>> }

InitComment ==
  /\ pc = "call" /\ line = <<>> /\ doc = JNull
  /\ entries \in SeqsUpTo(EntryTexts, MaxEntries)
  /\ ret = <<>> /\ Idle

CallCreateWarningComment ==
  /\ pc = "call"
  /\ ret' = createWarningComment(entries)
  /\ pc' = "ret"
  /\ UNCHANGED <<line, doc, entries, runVars>>

SpecComment == InitComment /\ [][CallCreateWarningComment]_vars

(***************************************************************************)
(* Properties of createWarningComment (SpecComment).                       *)
(***************************************************************************)
\* Where entry k starts in the comment: after the heading, the table header
\* and the entries before it, each followed by one newline.
RECURSIVE EntryStart(_, _)
EntryStart(es, k) ==
  IF k <= 1 THEN Len(Heading) + 1 + Len(tableHeader) + 1
  ELSE EntryStart(es, k - 1) + Len(es[k - 1]) + 1

\* C6: the comment is the heading, the table header with its separator
\* row, every entry verbatim in input order and the footer, each followed
\* by exactly one newline except the footer, which ends the text; with no
\* entry the footer comes right after the table header.
C6_CommentLayout ==
  pc = "ret" =>
    LET n == Len(entries)
        h == Len(Heading)
        t == Len(tableHeader)
        foot == EntryStart(entries, n + 1)
    IN
    /\ SubSeq(ret, 1, h) = Heading
    /\ ret[h + 1] = NL
    /\ SubSeq(ret, h + 2, h + 1 + t) = tableHeader
    /\ ret[h + t + 2] = NL
    /\ \A k \in 1..n :
         LET st == EntryStart(entries, k) IN
         /\ SubSeq(ret, st + 1, st + Len(entries[k])) = entries[k]
         /\ ret[st + Len(entries[k]) + 1] = NL
    /\ SubSeq(ret, foot + 1, foot + Len(linkToDocs)) = linkToDocs
    /\ Len(ret) = foot + Len(linkToDocs)

\* Three rows, not all the same, one of them the empty text.
C6_Witness ==
  /\ pc = "ret"
  /\ Len(entries) = 3
  /\ entries[1] # entries[2]
  /\ entries[3] = <<>>
  /\ entries[1] # <<>>

(***************************************************************************)
(* Properties of runHelper (Spec).                                         *)
(***************************************************************************)
\* C7: a failed download ends the run at that file: it is the last file
\* fetched, the files were fetched in order with none left out, runHelper
\* has returned false, and no comment was built or set.
C7_FetchFailureAborts ==
  /\ Len(fetchLog) <= Len(dashboardsInPR)
  /\ \A k \in 1..Len(fetchLog) :
       /\ fetchLog[k].file = dashboardsInPR[k]
       /\ fetchLog[k].outcome # "ok" =>
            /\ k = Len(fetchLog)
            /\ idx = k
            /\ pc = "done"
            /\ result = "false"
            /\ outputs = <<>>
            /\ createCalls = <<>>

\* The second of three files fails after the first produced warnings.
C7_Witness ==
  /\ pc = "done"
  /\ Len(dashboardsInPR) = 3
  /\ Len(fetchLog) = 2
  /\ fetchLog[1].outcome = "ok"
  /\ fetchLog[2].outcome = "notok"
  /\ warningMessages # <<>>
  /\ result = "false"

\* C8: the comment is built and set at most once, only when the run is
\* over with every file fetched successfully and at least one entry; a run
\* whose files all succeed with no warning returns true and sets nothing.
C8_CommentOnlyAfterAllFiles ==
  /\ Len(outputs) <= 1
  /\ Len(createCalls) = Len(outputs)
  /\ outputs # <<>> =>
       /\ pc = "done"
       /\ result = "true"
       /\ Len(fetchLog) = Len(dashboardsInPR)
       /\ \A k \in 1..Len(fetchLog) : fetchLog[k].outcome = "ok"
       /\ Len(createCalls[1]) > 0
       /\ createCalls[1] = warningMessages
       /\ outputs[1] = createWarningComment(createCalls[1])
  /\ ( /\ pc = "done"
       /\ idx > Len(dashboardsInPR)
       /\ warningMessages = <<>> )
     => result = "true" /\ outputs = <<>> /\ createCalls = <<>>

\* Two files fetched, none with a warning: true is returned, nothing is set.
C8_Witness ==
  /\ pc = "done"
  /\ result = "true"
  /\ Len(fetchLog) = 2
  /\ warningMessages = <<>>
  /\ outputs = <<>>

RECURSIVE WarningsBefore(_, _)
WarningsBefore(log, k) ==
  IF k <= 1 THEN 0
  ELSE WarningsBefore(log, k - 1) + Len(log[k - 1].warnings)

\* C9: the list handed to createWarningComment holds, for each file in
\* processing order and each warning of getWarnings for it in order, the
\* entry "| warning | filename |" of that file, and nothing else.
C9_EntriesInFileThenLineOrder ==
  \A c \in 1..Len(createCalls) :
    LET arg == createCalls[c] IN
    /\ Len(arg) = WarningsBefore(fetchLog, Len(fetchLog) + 1)
    /\ \A k \in 1..Len(fetchLog) :
         /\ fetchLog[k].warnings = getWarnings(fetchLog[k].doc)
         /\ \A w \in 1..Len(fetchLog[k].warnings) :
              arg[WarningsBefore(fetchLog, k) + w]
                = <<"| ", fetchLog[k].warnings[w], " | ">>
                    \o dashboardsInPR[k].filename \o <<" |">>

\* Two different files, the first with two warnings, the second with one.
C9_Witness ==
  /\ Len(createCalls) = 1
  /\ Len(fetchLog) = 2
  /\ Len(fetchLog[1].warnings) = 2
  /\ Len(fetchLog[2].warnings) = 1
  /\ dashboardsInPR[1].filename # dashboardsInPR[2].filename

====
